---- MODULE Spec2Model ----
(***************************************************************************)
(* Model of cft-tcp: the frame loop of src/src/main.rs and the connection  *)
(* state machine of src/src/tcp.rs.                                         *)
(*                                                                          *)
(* A u32 is kept at its full width as a pair <<hi, lo>> of 16-bit limbs    *)
(* (value = hi * 2^16 + lo), because the model checker's integers are      *)
(* 32-bit signed.  All Wrapping<u32> arithmetic is done on the pairs,      *)
(* modulo 2^32; comparisons are the plain unsigned order, as derived for   *)
(* Wrapping<u32>.                                                           *)
(*                                                                          *)
(* Interface reads and writes are assumed to succeed (nic.recv / nic.send  *)
(* returning Err ends the process and is not modelled).                    *)
(***************************************************************************)
EXTENDS Integers, Sequences, FiniteSets, TLC

VARIABLES
    conn,      \* tcp_conn: HashMap<Quad, Connection>, a function on the quads present
    pc,        \* position of main: "recv", "handle", "exited" (main returned Err), "panicked"
    frame,     \* the frame in buf during the current loop iteration
    nic_out,   \* segments written to the interface during the current iteration
    result,    \* what the handler of the current iteration returned
    log,       \* the diagnostic line written during the current iteration ("" for none)
    nframes,   \* number of frames read so far
    probe      \* inputs and result of a direct call of one of the pure helpers

vars == <<conn, pc, frame, nic_out, result, log, nframes, probe>>

----------------------------------------------------------------------------
(* Bounds of the model *)

MaxFrames == 3
MaxLen == 1

----------------------------------------------------------------------------
(* u32 arithmetic on 16-bit limbs *)

Limb == 2^16

U32(n) == <<n \div Limb, n % Limb>>

MaxU32 == <<Limb - 1, Limb - 1>>

\* Wrapping<u32> addition
WAdd(a, b) ==
    LET lo == a[2] + b[2]
        hi == a[1] + b[1] + (lo \div Limb)
    IN  <<hi % Limb, lo % Limb>>

WNeg(b) == WAdd(<<Limb - 1 - b[1], Limb - 1 - b[2]>>, U32(1))

\* Wrapping<u32> subtraction
WSub(a, b) == WAdd(a, WNeg(b))

\* the unsigned order of u32
Lt(a, b) == a[1] < b[1] \/ (a[1] = b[1] /\ a[2] < b[2])
Le(a, b) == a = b \/ Lt(a, b)

----------------------------------------------------------------------------
(* tcp.rs *)

iss == 0

TTL == 64

TcpHeaderLen == 20

Ipv4HeaderLen == 20

States == {"Closed", "Listen", "SynRcvd", "SynSent", "Established", "FinWait1",
           "FinWait2", "Closing", "TimeWait", "CloseWait", "LastAck"}

is_sync(state) == state \notin {"SynRcvd", "SynSent", "Listen"}

is_between(start, end, val) ==
    IF Lt(start, end)
    THEN Le(start, val) /\ Le(val, end)
    ELSE Le(start, val) \/ Le(val, end)

\* TRUE stands for Ok(()), FALSE for Err(InvalidInput)
check_acceptable_ack(c, ackn) ==
    is_between(WAdd(c.tx.una, U32(1)), c.tx.nxt, ackn)

\* TRUE stands for Ok(()), FALSE for Err(InvalidInput)
check_valid_segment(c, tcp_hdr, slen) ==
    LET seqn == tcp_hdr.sequence_number
        end == WAdd(c.rx.nxt, U32(c.rx.wnd))
    IN  IF slen = 0 /\ tcp_hdr.window_size = 0 /\ seqn # c.rx.nxt THEN FALSE
        ELSE IF slen > 0 /\ tcp_hdr.window_size = 0 THEN FALSE
        ELSE is_between(c.rx.nxt, WSub(end, U32(1)), seqn)

\* what nic.send is handed: the IPv4 header, the TCP header, and the byte count
Wire(ip, tcp, written) ==
    [source |-> ip.source, destination |-> ip.destination,
     total_len |-> Ipv4HeaderLen + ip.payload_len,
     source_port |-> tcp.source_port, destination_port |-> tcp.destination_port,
     sequence_number |-> tcp.sequence_number,
     acknowledgment_number |-> tcp.acknowledgment_number,
     window_size |-> tcp.window_size,
     syn |-> tcp.syn, ack |-> tcp.ack, rst |-> tcp.rst, fin |-> tcp.fin,
     written |-> written]

\* a send that forgets that SYN and FIN take a sequence number each
send_flags_free(c, plen) ==
    LET tcp == [c.tcp EXCEPT !.sequence_number = c.tx.nxt,
                             !.acknowledgment_number = c.rx.nxt]
        ip == [c.ip EXCEPT !.payload_len = TcpHeaderLen + plen]
        written == Ipv4HeaderLen + TcpHeaderLen
    IN  [conn |-> [c EXCEPT !.tcp = tcp, !.ip = ip,
                            !.tx.nxt = WAdd(c.tx.nxt, U32(plen))],
         out |-> <<Wire(ip, tcp, written)>>]

\* a send that announces the payload alone as the IPv4 payload length
send_payload_len_only(c, plen) ==
    LET tcp == [c.tcp EXCEPT !.sequence_number = c.tx.nxt,
                             !.acknowledgment_number = c.rx.nxt]
        ip == [c.ip EXCEPT !.payload_len = plen]
        written == Ipv4HeaderLen + TcpHeaderLen
        adv == plen + (IF tcp.syn THEN 1 ELSE 0) + (IF tcp.fin THEN 1 ELSE 0)
    IN  [conn |-> [c EXCEPT !.tcp = tcp, !.ip = ip,
                            !.tx.nxt = WAdd(c.tx.nxt, U32(adv))],
         out |-> <<Wire(ip, tcp, written)>>]

\* Connection::send with a payload of plen bytes: the connection afterwards and
\* the segment written to the interface
send(c, plen) ==
    LET tcp == [c.tcp EXCEPT !.sequence_number = c.tx.nxt,
                             !.acknowledgment_number = c.rx.nxt]
        ip == [c.ip EXCEPT !.payload_len = TcpHeaderLen + plen]
        written == Ipv4HeaderLen + TcpHeaderLen
        adv == plen + (IF tcp.syn THEN 1 ELSE 0) + (IF tcp.fin THEN 1 ELSE 0)
    IN  [conn |-> [c EXCEPT !.tcp = tcp, !.ip = ip,
                            !.tx.nxt = WAdd(c.tx.nxt, U32(adv))],
         out |-> <<Wire(ip, tcp, written)>>]

send_rst(c) == send([c EXCEPT !.tcp.rst = TRUE], 0)

\* a connection that starts in Listen
new_connection_listen(ip_hdr, tcp_hdr) ==
    [state |-> "Listen",
     tx |-> [una |-> U32(iss), nxt |-> U32(iss + 1), wnd |-> tcp_hdr.window_size,
             up |-> FALSE, wl1 |-> 0, wl2 |-> 0, iss |-> U32(iss)],
     rx |-> [nxt |-> WAdd(tcp_hdr.sequence_number, U32(1)),
             wnd |-> tcp_hdr.window_size, up |-> FALSE,
             irs |-> tcp_hdr.sequence_number],
     tcp |-> [source_port |-> tcp_hdr.destination_port,
              destination_port |-> tcp_hdr.source_port,
              sequence_number |-> U32(iss), acknowledgment_number |-> U32(0),
              window_size |-> tcp_hdr.window_size,
              syn |-> FALSE, ack |-> FALSE, rst |-> FALSE, fin |-> FALSE],
     ip |-> [payload_len |-> TcpHeaderLen, ttl |-> TTL,
             source |-> ip_hdr.destination_addr,
             destination |-> ip_hdr.source_addr]]

\* the Connection built by accept for a SYN, before the SYN+ACK is sent
new_connection(ip_hdr, tcp_hdr) ==
    [state |-> "SynRcvd",
     tx |-> [una |-> U32(iss), nxt |-> U32(iss + 1), wnd |-> tcp_hdr.window_size,
             up |-> FALSE, wl1 |-> 0, wl2 |-> 0, iss |-> U32(iss)],
     rx |-> [nxt |-> WAdd(tcp_hdr.sequence_number, U32(1)),
             wnd |-> tcp_hdr.window_size, up |-> FALSE,
             irs |-> tcp_hdr.sequence_number],
     tcp |-> [source_port |-> tcp_hdr.destination_port,
              destination_port |-> tcp_hdr.source_port,
              sequence_number |-> U32(iss), acknowledgment_number |-> U32(0),
              window_size |-> tcp_hdr.window_size,
              syn |-> FALSE, ack |-> FALSE, rst |-> FALSE, fin |-> FALSE],
     ip |-> [payload_len |-> TcpHeaderLen, ttl |-> TTL,
             source |-> ip_hdr.destination_addr,
             destination |-> ip_hdr.source_addr]]

\* accept without its test of the SYN flag
accept_any(ip_hdr, tcp_hdr) ==
    LET c == new_connection(ip_hdr, tcp_hdr)
        s == send([c EXCEPT !.tcp.syn = TRUE, !.tcp.ack = TRUE], 0)
    IN  [some |-> TRUE, conn |-> s.conn, out |-> s.out]

\* Connection::accept: Ok(None), or Ok(Some(c)) with the SYN+ACK written
accept(ip_hdr, tcp_hdr) ==
    IF ~tcp_hdr.syn
    THEN [some |-> FALSE, out |-> <<>>]
    ELSE LET c == new_connection(ip_hdr, tcp_hdr)
             s == send([c EXCEPT !.tcp.syn = TRUE, !.tcp.ack = TRUE], 0)
         IN  [some |-> TRUE, conn |-> s.conn, out |-> s.out]

\* a guard failure that is reported as an error
guard_failed_err(c, msg) ==
    [conn |-> c, out |-> <<>>, res |-> "ConnectionReset", log |-> msg]

\* on_packet's reaction to a failed guard, after logging msg
guard_failed(c, msg) ==
    IF ~is_sync(c.state)
    THEN LET s == send_rst(c)
         IN  [conn |-> s.conn, out |-> s.out, res |-> "Ok", log |-> msg]
    ELSE [conn |-> c, out |-> <<>>, res |-> "Ok", log |-> msg]

\* a dispatch that does not ask for the ACK flag in SynRcvd
dispatch_no_ack_test(c, tcp_hdr) ==
    CASE c.state \in {"Closed", "Listen"} -> [conn |-> c, out |-> <<>>, res |-> "Ok", log |-> ""]
      [] c.state = "SynRcvd" ->
            [conn |-> [c EXCEPT !.state = "Established"], out |-> <<>>,
             res |-> "Ok", log |-> ""]
      [] OTHER -> [conn |-> c, out |-> <<>>, res |-> "panic", log |-> ""]

\* a dispatch that forgets the transition to Established
dispatch_stay(c, tcp_hdr) ==
    CASE c.state \in {"Closed", "Listen"} -> [conn |-> c, out |-> <<>>, res |-> "Ok", log |-> ""]
      [] c.state = "SynRcvd" ->
            IF ~tcp_hdr.ack
            THEN [conn |-> c, out |-> <<>>, res |-> "ConnectionReset", log |-> ""]
            ELSE [conn |-> c, out |-> <<>>, res |-> "Ok", log |-> ""]
      [] OTHER -> [conn |-> c, out |-> <<>>, res |-> "panic", log |-> ""]

\* on_packet's match on the state, once both guards passed; res is "Ok" for Ok(0),
\* "ConnectionReset" for the Err, "panic" for todo!()
dispatch(c, tcp_hdr) ==
    CASE c.state \in {"Closed", "Listen"} -> [conn |-> c, out |-> <<>>, res |-> "Ok", log |-> ""]
      [] c.state = "SynRcvd" ->
            IF ~tcp_hdr.ack
            THEN [conn |-> c, out |-> <<>>, res |-> "ConnectionReset", log |-> ""]
            ELSE [conn |-> [c EXCEPT !.state = "Established"], out |-> <<>>,
                  res |-> "Ok", log |-> ""]
      [] OTHER -> [conn |-> c, out |-> <<>>, res |-> "panic", log |-> ""]

on_packet(c, tcp_hdr, dlen) ==
    IF ~check_acceptable_ack(c, tcp_hdr.acknowledgment_number)
    THEN guard_failed(c, "invalid acknowledgment number")
    ELSE IF ~check_valid_segment(c, tcp_hdr, dlen)
    THEN guard_failed(c, "invalid segment")
    ELSE dispatch(c, tcp_hdr)

----------------------------------------------------------------------------
(* main.rs *)

\* the key main builds for a decoded segment
Quad(f) ==
    [src |-> <<f.source_addr, f.source_port>>,
     dst |-> <<f.source_addr, f.destination_port>>]

\* sampled field values of inbound frames
SrcAddrs == {"10.0.0.1", "10.0.0.2"}
DstAddrs == {"192.168.0.1"}
SrcPorts == {4000}
DstPorts == {80}
SeqVals == {U32(1000), U32(1001), MaxU32, U32(0)}
AckVals == {U32(0), U32(1), U32(2), U32(3)}
WinVals == {0, 4096}

TcpFrames ==
    [kind : {"tcp"}, source_addr : SrcAddrs, destination_addr : DstAddrs,
     source_port : SrcPorts, destination_port : DstPorts,
     sequence_number : SeqVals, acknowledgment_number : AckVals,
     window_size : WinVals, syn : BOOLEAN, ack : BOOLEAN, len : 0..MaxLen]

OtherFrames ==
    {[kind |-> k] : k \in {"not_ipv4", "corrupt_ipv4", "not_tcp", "corrupt_tcp"}}

NoFrame == [kind |-> "none"]

NoProbe == [fn |-> "none"]

Insert(table, q, c) ==
    [x \in DOMAIN table \cup {q} |-> IF x = q THEN c ELSE table[x]]

Init ==
    /\ conn = <<>>
    /\ pc = "recv"
    /\ frame = NoFrame
    /\ nic_out = <<>>
    /\ result = "none"
    /\ log = ""
    /\ nframes = 0
    /\ probe = NoProbe

\* nic.recv: the next frame arrives in a fresh buffer
Recv ==
    /\ pc = "recv"
    /\ nframes < MaxFrames
    /\ \E f \in TcpFrames \cup OtherFrames : frame' = f
    /\ pc' = "handle"
    /\ nic_out' = <<>>
    /\ result' = "none"
    /\ log' = ""
    /\ nframes' = nframes + 1
    /\ UNCHANGED <<conn, probe>>

\* a loop that gives up on a frame it cannot decode
HandleOther_exit ==
    /\ pc = "handle"
    /\ frame.kind # "tcp"
    /\ pc' = IF frame.kind \in {"corrupt_ipv4", "corrupt_tcp"} THEN "exited" ELSE "recv"
    /\ frame' = NoFrame
    /\ result' = frame.kind
    /\ log' = ""
    /\ UNCHANGED <<conn, nic_out, nframes, probe>>

\* a frame that never reaches the connection table
HandleOther ==
    /\ pc = "handle"
    /\ frame.kind # "tcp"
    /\ pc' = "recv"
    /\ frame' = NoFrame
    /\ result' = frame.kind
    /\ log' = CASE frame.kind = "corrupt_ipv4" -> "corrupted ipv4 packet"
                 [] frame.kind = "corrupt_tcp" -> "corrupted tcp frame"
                 [] OTHER -> ""
    /\ UNCHANGED <<conn, nic_out, nframes, probe>>

\* a loop that lets a SYN for a known quad build the connection anew
HandleOccupied_reaccept ==
    /\ pc = "handle"
    /\ frame.kind = "tcp"
    /\ Quad(frame) \in DOMAIN conn
    /\ LET q == Quad(frame)
           r == on_packet(conn[q], frame, frame.len)
           a == accept(frame, frame)
       IN  IF frame.syn
           THEN /\ conn' = [conn EXCEPT ![q] = a.conn]
                /\ nic_out' = a.out
                /\ result' = "accept_Some"
                /\ log' = ""
                /\ pc' = "recv"
           ELSE /\ conn' = [conn EXCEPT ![q] = r.conn]
                /\ nic_out' = r.out
                /\ result' = "on_packet_" \o r.res
                /\ log' = r.log
                /\ pc' = CASE r.res = "Ok" -> "recv"
                           [] r.res = "ConnectionReset" -> "exited"
                           [] OTHER -> "panicked"
    /\ frame' = NoFrame
    /\ UNCHANGED <<nframes, probe>>

\* Entry::Occupied
HandleOccupied ==
    /\ pc = "handle"
    /\ frame.kind = "tcp"
    /\ Quad(frame) \in DOMAIN conn
    /\ LET q == Quad(frame)
           r == on_packet(conn[q], frame, frame.len)
       IN  /\ conn' = [conn EXCEPT ![q] = r.conn]
           /\ nic_out' = r.out
           /\ result' = "on_packet_" \o r.res
           /\ log' = r.log
           /\ pc' = CASE r.res = "Ok" -> "recv"
                      [] r.res = "ConnectionReset" -> "exited"
                      [] OTHER -> "panicked"
    /\ frame' = NoFrame
    /\ UNCHANGED <<nframes, probe>>

\* Entry::Vacant
HandleVacant ==
    /\ pc = "handle"
    /\ frame.kind = "tcp"
    /\ Quad(frame) \notin DOMAIN conn
    /\ LET q == Quad(frame)
           r == accept(frame, frame)
       IN  /\ conn' = IF r.some THEN Insert(conn, q, r.conn) ELSE conn
           /\ nic_out' = r.out
           /\ result' = IF r.some THEN "accept_Some" ELSE "accept_None"
    /\ pc' = "recv"
    /\ frame' = NoFrame
    /\ UNCHANGED <<log, nframes, probe>>

Next == Recv \/ HandleOther \/ HandleOccupied \/ HandleVacant

Spec == Init /\ [][Next]_vars

----------------------------------------------------------------------------
(* Direct calls of the pure helpers of tcp.rs on sampled arguments *)

MaxSmall == 11
MaxWrap == 3
MaxSegLen == 2

\* u32 samples: around zero, around the wrap, and around 2^31
U32Samples ==
    {U32(n) : n \in 0..MaxSmall} \cup {WSub(MaxU32, U32(k)) : k \in 0..MaxWrap}
    \cup {<<Limb \div 2, 0>>, <<Limb \div 2 - 1, Limb - 1>>}

\* u16 samples for rx.wnd
WndSamples == {0, 1, 2, 3, Limb - 1}

\* decoded address and port fields of two inbound segments
ProbeHeaders ==
    [source_addr : {"10.0.0.1", "10.0.0.2"},
     destination_addr : {"192.168.0.1", "192.168.0.2"},
     source_port : {4000, 4001}, destination_port : {80, 81}]

\* a connection as accept builds it, with the fields send reads set from the probe
ProbeConnection(nxt, rxnxt, syn, fin) ==
    LET hdr == [source_addr |-> "10.0.0.1", destination_addr |-> "192.168.0.1",
                source_port |-> 4000, destination_port |-> 80,
                sequence_number |-> WSub(rxnxt, U32(1)), window_size |-> 4096]
        c == new_connection(hdr, hdr)
    IN  [c EXCEPT !.tx.nxt = nxt, !.tcp.syn = syn, !.tcp.fin = fin]

ProbeInputs ==
    [fn : {"is_between"}, start : U32Samples, end : U32Samples, val : U32Samples,
     done : {FALSE}, ok : {FALSE}]
    \cup
    [fn : {"check_acceptable_ack"}, una : U32Samples, nxt : U32Samples,
     ackn : U32Samples, done : {FALSE}, ok : {FALSE}]
    \cup
    [fn : {"check_valid_segment"}, nxt : U32Samples, wnd : WndSamples,
     sequence_number : U32Samples, window_size : WinVals, slen : 0..MaxSegLen,
     done : {FALSE}, ok : {FALSE}]
    \cup
    [fn : {"Quad"}, a : ProbeHeaders, b : ProbeHeaders, done : {FALSE}, ok : {FALSE}]
    \cup
    [fn : {"send"}, nxt : U32Samples, rxnxt : SeqVals, syn : BOOLEAN, fin : BOOLEAN,
     plen : 0..MaxSegLen, done : {FALSE}, out : {<<>>}, after : {<<>>}]

InitProbe ==
    /\ conn = <<>>
    /\ pc = "recv"
    /\ frame = NoFrame
    /\ nic_out = <<>>
    /\ result = "none"
    /\ log = ""
    /\ nframes = 0
    /\ probe \in ProbeInputs

ApplyIsBetween ==
    /\ probe.fn = "is_between"
    /\ ~probe.done
    /\ probe' = [probe EXCEPT !.done = TRUE,
                              !.ok = is_between(probe.start, probe.end, probe.val)]
    /\ UNCHANGED <<conn, pc, frame, nic_out, result, log, nframes>>

ApplyAcceptableAck ==
    /\ probe.fn = "check_acceptable_ack"
    /\ ~probe.done
    /\ LET c == [tx |-> [una |-> probe.una, nxt |-> probe.nxt]]
       IN  probe' = [probe EXCEPT !.done = TRUE,
                                  !.ok = check_acceptable_ack(c, probe.ackn)]
    /\ UNCHANGED <<conn, pc, frame, nic_out, result, log, nframes>>

ApplyValidSegment ==
    /\ probe.fn = "check_valid_segment"
    /\ ~probe.done
    /\ LET c == [rx |-> [nxt |-> probe.nxt, wnd |-> probe.wnd]]
           tcp_hdr == [sequence_number |-> probe.sequence_number,
                       window_size |-> probe.window_size]
       IN  probe' = [probe EXCEPT !.done = TRUE,
                                  !.ok = check_valid_segment(c, tcp_hdr, probe.slen)]
    /\ UNCHANGED <<conn, pc, frame, nic_out, result, log, nframes>>

\* whether main builds the same key for two segments
ApplyQuad ==
    /\ probe.fn = "Quad"
    /\ ~probe.done
    /\ probe' = [probe EXCEPT !.done = TRUE, !.ok = (Quad(probe.a) = Quad(probe.b))]
    /\ UNCHANGED <<conn, pc, frame, nic_out, result, log, nframes>>

ApplySend ==
    /\ probe.fn = "send"
    /\ ~probe.done
    /\ LET c == ProbeConnection(probe.nxt, probe.rxnxt, probe.syn, probe.fin)
           s == send(c, probe.plen)
       IN  probe' = [probe EXCEPT !.done = TRUE, !.out = s.out, !.after = s.conn]
    /\ UNCHANGED <<conn, pc, frame, nic_out, result, log, nframes>>

NextProbe ==
    ApplyIsBetween \/ ApplyAcceptableAck \/ ApplyValidSegment \/ ApplyQuad \/ ApplySend

SpecProbe == InitProbe /\ [][NextProbe]_vars

----------------------------------------------------------------------------
(* The cases the properties below are about *)

\* the handler is about to call accept for the frame in buf
AcceptCall == pc = "handle" /\ frame.kind = "tcp" /\ Quad(frame) \notin DOMAIN conn

\* the handler is about to call on_packet for the frame in buf
OnPacketCall == pc = "handle" /\ frame.kind = "tcp" /\ Quad(frame) \in DOMAIN conn

\* the frame in buf fails one of on_packet's two guards on connection c
FailsGuard(c) ==
    \/ ~check_acceptable_ack(c, frame.acknowledgment_number)
    \/ ~check_valid_segment(c, frame, frame.len)

Unsynchronized == {"Listen", "SynSent", "SynRcvd"}

NoPayload(w) == w.total_len = Ipv4HeaderLen + TcpHeaderLen

----------------------------------------------------------------------------
(* C1: passive-open handshake.  accept on a SYN(seq = s) for a quad without a  *)
(* connection stores a connection in SynRcvd with rx.irs = s, rx.nxt = s + 1   *)
(* mod 2^32 and writes exactly one segment, with SYN and ACK set and           *)
(* ack = s + 1; and on_packet on a connection in SynRcvd with a payload-free   *)
(* segment that has ACK set, ack = iss + 1 and seq = rx.nxt leaves the          *)
(* connection in Established.                                                   *)
C1_Handshake ==
    [][ /\ (AcceptCall /\ frame.syn) =>
            LET q == Quad(frame)
                s == frame.sequence_number
            IN  /\ q \in DOMAIN conn'
                /\ conn'[q].state = "SynRcvd"
                /\ conn'[q].rx.irs = s
                /\ conn'[q].rx.nxt = WAdd(s, U32(1))
                /\ Len(nic_out') = 1
                /\ nic_out'[1].syn /\ nic_out'[1].ack
                /\ nic_out'[1].acknowledgment_number = WAdd(s, U32(1))
        /\ (/\ OnPacketCall
            /\ conn[Quad(frame)].state = "SynRcvd"
            /\ frame.ack
            /\ frame.acknowledgment_number = WAdd(conn[Quad(frame)].tx.iss, U32(1))
            /\ frame.sequence_number = conn[Quad(frame)].rx.nxt
            /\ frame.len = 0) =>
            conn'[Quad(frame)].state = "Established"
      ]_vars

\* a handshake was completed: the last frame moved a connection to Established
C1_Witness ==
    /\ result = "on_packet_Ok"
    /\ log = ""
    /\ \E q \in DOMAIN conn :
           /\ conn[q].state = "Established"
           /\ conn[q].rx.nxt = WAdd(conn[q].rx.irs, U32(1))

(* C2: the SYN+ACK that accept writes carries sequence number tx.iss,          *)
(* acknowledgment number rx.nxt, window tx.wnd, the SYN and ACK flags, and no  *)
(* payload.                                                                     *)
C2_SynAckFields ==
    [][ (AcceptCall /\ frame.syn) =>
            LET c == conn'[Quad(frame)]
                w == nic_out'[1]
            IN  /\ Len(nic_out') = 1
                /\ w.sequence_number = c.tx.iss
                /\ w.acknowledgment_number = c.rx.nxt
                /\ w.window_size = c.tx.wnd
                /\ w.syn /\ w.ack
                /\ NoPayload(w)
      ]_vars

(* C3: right after accept returns a connection, tx.una = iss and               *)
(* tx.nxt = iss + 1 mod 2^32.                                                   *)
C3_OneSequenceNumberInFlight ==
    [][ (AcceptCall /\ frame.syn) =>
            LET c == conn'[Quad(frame)]
            IN  /\ c.tx.una = c.tx.iss
                /\ c.tx.nxt = WAdd(c.tx.iss, U32(1))
      ]_vars

(* C4: a segment with SYN clear for a quad without a connection creates no     *)
(* connection, writes nothing and leaves the table as it was; and a quad       *)
(* enters the table only in a step that handles a segment of that quad with    *)
(* SYN set.                                                                     *)
C4_NoConnectionWithoutSyn ==
    [][ /\ (AcceptCall /\ ~frame.syn) =>
            /\ conn' = conn
            /\ nic_out' = <<>>
            /\ result' = "accept_None"
        /\ \A q \in DOMAIN conn' \ DOMAIN conn :
            frame.kind = "tcp" /\ frame.syn /\ q = Quad(frame)
      ]_vars

\* accept returned None while the table already holds another connection
C4_Witness == result = "accept_None" /\ DOMAIN conn # {} /\ nic_out = <<>>

(* C5: on_packet on an unsynchronized connection with a segment     *)
(* that fails a guard writes nothing and changes no field of the connection.   *)
C5_UnsyncSilentDrop ==
    [][ (OnPacketCall /\ conn[Quad(frame)].state \in Unsynchronized
            /\ FailsGuard(conn[Quad(frame)])) =>
            /\ nic_out' = <<>>
            /\ conn'[Quad(frame)] = conn[Quad(frame)]
      ]_vars

(* C6: on_packet on a synchronized connection with a segment that   *)
(* fails a guard writes exactly one segment, with RST set.                      *)
C6_SyncSendsRst ==
    [][ (OnPacketCall /\ conn[Quad(frame)].state \notin Unsynchronized
            /\ FailsGuard(conn[Quad(frame)])) =>
            /\ Len(nic_out') = 1
            /\ nic_out'[1].rst
      ]_vars

(* C7: check_acceptable_ack accepts ack if and only if                          *)
(* 1 <= (ack - una) mod 2^32 <= (nxt - una) mod 2^32; in particular, when      *)
(* nxt = una + 1 only ack = nxt is accepted.                                    *)
C7_AcceptableAck ==
    (probe.fn = "check_acceptable_ack" /\ probe.done) =>
        LET d == WSub(probe.ackn, probe.una)
        IN  /\ probe.ok <=> (Le(U32(1), d) /\ Le(d, WSub(probe.nxt, probe.una)))
            /\ (probe.nxt = WAdd(probe.una, U32(1)) /\ probe.ok) => probe.ackn = probe.nxt

(* C8: is_between(start, end, val) is start <= val <= end when start <= end as *)
(* unsigned integers (start = end included), and val >= start or val <= end    *)
(* when start > end; so is_between(k, k, v) holds only for v = k.               *)
C8_IsBetweenReference ==
    (probe.fn = "is_between" /\ probe.done) =>
        /\ probe.ok <=> (IF Le(probe.start, probe.end)
                         THEN Le(probe.start, probe.val) /\ Le(probe.val, probe.end)
                         ELSE Le(probe.start, probe.val) \/ Le(probe.val, probe.end))
        /\ (probe.start = probe.end /\ probe.ok) => probe.val = probe.start

(* C9: with rx.wnd = 0, a segment without payload passes check_valid_segment   *)
(* if and only if seq = rx.nxt, and a segment with payload never passes,       *)
(* whatever window the segment advertises.                                      *)
C9_ZeroWindow ==
    (probe.fn = "check_valid_segment" /\ probe.done /\ probe.wnd = 0) =>
        (probe.ok <=> (probe.slen = 0 /\ probe.sequence_number = probe.nxt))

(* C10: with rx.wnd > 0, a segment passes check_valid_segment if and only if   *)
(* (seq - rx.nxt) mod 2^32 < rx.wnd, or L > 0 and                               *)
(* (seq + L - 1 - rx.nxt) mod 2^32 < rx.wnd.                                    *)
C10_NonZeroWindow ==
    (probe.fn = "check_valid_segment" /\ probe.done /\ probe.wnd > 0) =>
        LET first == WSub(probe.sequence_number, probe.nxt)
            last == WSub(WAdd(probe.sequence_number, U32(probe.slen - 1)), probe.nxt)
        IN  probe.ok <=> (\/ Lt(first, U32(probe.wnd))
                          \/ (probe.slen > 0 /\ Lt(last, U32(probe.wnd))))

----------------------------------------------------------------------------
\* the states whose handling on_packet leaves open
OutOfScope == {"Established", "SynSent", "FinWait1", "FinWait2", "Closing",
               "TimeWait", "CloseWait", "LastAck"}

OnPacketResults == {"on_packet_Ok", "on_packet_ConnectionReset", "on_packet_panic"}

(* C11: in SynRcvd, for a segment that passes both guards: with the ACK flag    *)
(* clear on_packet fails with a connection-reset error, which ends main, and    *)
(* the state stays SynRcvd; with the ACK flag set the state becomes             *)
(* Established, on_packet returns Ok(0) and nothing is written.                 *)
C11_SynRcvdDispatch ==
    [][ (OnPacketCall /\ conn[Quad(frame)].state = "SynRcvd"
            /\ ~FailsGuard(conn[Quad(frame)])) =>
            IF ~frame.ack
            THEN /\ result' = "on_packet_ConnectionReset"
                 /\ pc' = "exited"
                 /\ conn'[Quad(frame)].state = "SynRcvd"
            ELSE /\ result' = "on_packet_Ok"
                 /\ conn'[Quad(frame)].state = "Established"
                 /\ nic_out' = <<>>
      ]_vars

\* on_packet has just failed with the connection-reset error on a SynRcvd connection
C11_Witness ==
    /\ result = "on_packet_ConnectionReset"
    /\ pc = "exited"
    /\ \E q \in DOMAIN conn : conn[q].state = "SynRcvd"

(* C12: a segment that fails the acceptable-ACK test or the segment-validity    *)
(* test never makes on_packet return an error: it returns Ok(0) and the frame   *)
(* loop goes on to read the next frame.                                          *)
C12_GuardFailureIsNotAnError ==
    [][ (OnPacketCall /\ FailsGuard(conn[Quad(frame)])) =>
            /\ result' = "on_packet_Ok"
            /\ pc' = "recv"
      ]_vars

\* a segment was rejected by the segment-validity test and the loop is reading on
C12_Witness ==
    /\ result = "on_packet_Ok"
    /\ log = "invalid segment"
    /\ pc = "recv"

(* C13: two inbound segments get the same key, and so the same Connection, if   *)
(* and only if they agree on local address, local port, remote address and      *)
(* remote port; segments that differ only in their IPv4 destination address     *)
(* never get the same key.                                                       *)
C13_KeyIsTheFourTuple ==
    (probe.fn = "Quad" /\ probe.done) =>
        (probe.ok <=> (/\ probe.a.source_addr = probe.b.source_addr
                       /\ probe.a.source_port = probe.b.source_port
                       /\ probe.a.destination_addr = probe.b.destination_addr
                       /\ probe.a.destination_port = probe.b.destination_port))

(* C14: a segment whose quad is in the table is handled by on_packet of that    *)
(* connection and accept is not called, so a repeated SYN neither replaces nor  *)
(* re-creates the connection; a segment whose quad is absent is handled by      *)
(* accept, and the table gains that quad exactly when accept returns a          *)
(* connection.  No step removes a key, and a step adds at most one.              *)
C14_Demultiplexing ==
    [][ /\ OnPacketCall =>
            LET q == Quad(frame)
            IN  /\ result' \in OnPacketResults
                /\ DOMAIN conn' = DOMAIN conn
                /\ conn'[q] = on_packet(conn[q], frame, frame.len).conn
                /\ conn'[q].rx.irs = conn[q].rx.irs
                /\ \A x \in DOMAIN conn \ {q} : conn'[x] = conn[x]
        /\ AcceptCall =>
            LET q == Quad(frame)
            IN  /\ result' \in {"accept_Some", "accept_None"}
                /\ (q \in DOMAIN conn') <=> (result' = "accept_Some")
                /\ (q \in DOMAIN conn') <=> accept(frame, frame).some
                /\ \A x \in DOMAIN conn : conn'[x] = conn[x]
        /\ DOMAIN conn \subseteq DOMAIN conn'
        /\ Cardinality(DOMAIN conn' \ DOMAIN conn) <= 1
      ]_vars

\* two quads are in the table and the last segment went to on_packet of one of them
C14_Witness ==
    /\ Cardinality(DOMAIN conn) = 2
    /\ result \in OnPacketResults

(* C15: on_packet on a connection in a state whose handling is out of scope,    *)
(* with a segment that passes both guards, returns a result and does not abort  *)
(* the process: the frame loop keeps running.                                    *)
C15_OutOfScopeDoesNotAbort ==
    [][ (OnPacketCall /\ conn[Quad(frame)].state \in OutOfScope
            /\ ~FailsGuard(conn[Quad(frame)])) =>
            /\ result' # "on_packet_panic"
            /\ pc' # "panicked"
      ]_vars

(* C16: a frame that is not IPv4, or is IPv4 but not TCP, or whose IPv4 or TCP  *)
(* header fails to decode, reaches neither accept nor on_packet: the table and  *)
(* every connection are unchanged, nothing is written, and the loop goes on to  *)
(* the next frame.                                                               *)
C16_OtherFramesAreSkipped ==
    [][ (pc = "handle" /\ frame.kind # "tcp") =>
            /\ conn' = conn
            /\ nic_out' = <<>>
            /\ pc' = "recv"
            /\ result' \notin OnPacketResults \cup {"accept_Some", "accept_None"}
      ]_vars

\* an undecodable frame was dropped while the table holds a connection
C16_Witness ==
    /\ result \in {"corrupt_ipv4", "corrupt_tcp"}
    /\ log # ""
    /\ DOMAIN conn # {}
    /\ pc = "recv"

(* C17: a segment written by send carries the sequence number tx.nxt had        *)
(* before the send and the acknowledgment number rx.nxt; the send advances      *)
(* tx.nxt by the payload length, plus 1 if the segment has SYN set, plus 1 if   *)
(* it has FIN set, modulo 2^32, and changes none of tx.una, tx.iss, rx.nxt and  *)
(* rx.irs.                                                                       *)
C17_SendSequenceNumbers ==
    (probe.fn = "send" /\ probe.done) =>
        LET c == ProbeConnection(probe.nxt, probe.rxnxt, probe.syn, probe.fin)
            w == probe.out[1]
            d == probe.after
        IN  /\ Len(probe.out) = 1
            /\ w.sequence_number = probe.nxt
            /\ w.acknowledgment_number = probe.rxnxt
            /\ d.tx.nxt = WAdd(probe.nxt, U32(probe.plen + (IF w.syn THEN 1 ELSE 0)
                                                         + (IF w.fin THEN 1 ELSE 0)))
            /\ d.tx.una = c.tx.una /\ d.tx.iss = c.tx.iss
            /\ d.rx.nxt = c.rx.nxt /\ d.rx.irs = c.rx.irs

\* a send of a payload with SYN and FIN set whose tx.nxt wraps around
C17_Witness ==
    /\ probe.fn = "send" /\ probe.done
    /\ probe.syn /\ probe.fin /\ probe.plen > 0
    /\ probe.nxt = MaxU32
    /\ probe.after.tx.nxt = U32(probe.plen + 1)

(* C18: for every payload passed to send, the number of bytes written to the    *)
(* interface is IPv4 header length + TCP header length + payload length, which  *)
(* is the total length announced in the IPv4 header.  send is private to        *)
(* Connection and is called by accept and by send_rst only, both with the empty *)
(* payload: every segment the program writes is the two headers, and the IPv4   *)
(* header announces exactly their length.                                        *)
C18_WrittenLength ==
    \A i \in 1..Len(nic_out) :
        /\ nic_out[i].written = Ipv4HeaderLen + TcpHeaderLen + 0
        /\ nic_out[i].written = nic_out[i].total_len

\* send has been called from both of its call sites: a connection made by accept
\* has just written a RST
C18_Witness ==
    /\ Len(nic_out) = 1
    /\ nic_out[1].rst
    /\ nic_out[1].written = Ipv4HeaderLen + TcpHeaderLen
    /\ \E q \in DOMAIN conn : conn[q].tcp.rst

(* C19: after its SYN+ACK a connection writes no further segment with SYN set:  *)
(* every segment on_packet writes (every RST) has SYN clear, and writing a RST  *)
(* without payload leaves tx.nxt unchanged.                                      *)
C19_SynOnlyOnce ==
    [][ (OnPacketCall /\ Len(nic_out') = 1) =>
            /\ ~nic_out'[1].syn
            /\ (nic_out'[1].rst /\ NoPayload(nic_out'[1])) =>
                   conn'[Quad(frame)].tx.nxt = conn[Quad(frame)].tx.nxt
      ]_vars

(* C20: every connection in the table is in SynRcvd or Established; the only    *)
(* change of state is SynRcvd to Established, made only by a segment of that    *)
(* quad with the ACK flag set that passed both guards; an Established           *)
(* connection never returns to SynRcvd.                                          *)
C20_StateMachine ==
    [][ /\ \A q \in DOMAIN conn' : conn'[q].state \in {"SynRcvd", "Established"}
        /\ \A q \in DOMAIN conn :
               conn'[q].state # conn[q].state =>
                   /\ conn[q].state = "SynRcvd"
                   /\ conn'[q].state = "Established"
                   /\ pc = "handle" /\ frame.kind = "tcp" /\ q = Quad(frame)
                   /\ frame.ack
                   /\ ~FailsGuard(conn[q])
        /\ \A q \in DOMAIN conn :
               conn[q].state = "Established" => conn'[q].state = "Established"
      ]_vars

\* one connection has completed its handshake while another is still in SynRcvd
C20_Witness ==
    \E q, r \in DOMAIN conn :
        conn[q].state = "Established" /\ conn[r].state = "SynRcvd"

====
